---------------------------- MODULE Spec2Model ----------------------------
(***************************************************************************)
(* Model of src/traffic_monitor.py: the cron-driven traffic monitor.       *)
(*                                                                         *)
(* Representation of Python values:                                        *)
(*  - a str is a sequence of one-character strings;                        *)
(*  - a float is held as a fixed-point natural number counting tenths      *)
(*    (1.5 is 15), written little-endian in base 1024 without leading zero *)
(*    limbs (<<>> is 0.0), so that 1024**4 needs no wide integer; the      *)
(*    inputs of the model carry at most one fractional digit, for which    *)
(*    the fixed point is exact;                                            *)
(*  - an operation that may raise returns a record whose field exc names   *)
(*    the exception ("none" when it returns normally).                     *)
(***************************************************************************)
EXTENDS Integers, Sequences, FiniteSets, TLC

VARIABLES
    file,        \* the history file HISTORY_FILE on disk
    now,         \* the wall clock read by datetime.now()
    runs,        \* number of run_check invocations started so far
    pc,          \* per invocation: position inside run_check
    vnstat,      \* per invocation: how the vnstat subprocess ended
    cur,         \* per invocation: current_data
    hist,        \* per invocation: the local variable history
    stats,       \* per invocation: historical_stats
    spike,       \* per invocation: (is_spike, z_score)
    sent,        \* per invocation: payloads handed to send_to_apps_script
    result,      \* per invocation: return value of run_check
    raised,      \* per invocation: exception caught by run_check's handler
    wrote,       \* per invocation: outcome of the open/json.dump of save_history
    fileAtStart, \* history: the file when the invocation started
    fileAtSave,  \* history: the file right after the invocation's save_history
    fileAtEnd,   \* history: the file when the invocation returned
    overlapped,  \* history: this invocation and another one had both loaded
                 \* inside add_to_history before either saved
    calls,       \* history: initial records followed by the records appended
    intact,      \* history: the file started as a list of records and every
                 \* save_history so far wrote it
    conv_in,     \* argument of convert_to_bytes / convert_rate_to_bps
    conv_out,    \* its result
    conv_pc      \* "in" before the call, "bytes" / "rate" after it

vars == <<file, now, runs, pc, vnstat, cur, hist, stats, spike, sent, result, raised,
          wrote, fileAtStart, fileAtSave, fileAtEnd, overlapped, calls,
          intact, conv_in, conv_out, conv_pc>>

mainVars == <<file, now, runs, pc, vnstat, cur, hist, stats, spike, sent, result,
              raised, wrote, fileAtStart, fileAtSave, fileAtEnd, overlapped,
              calls, intact>>

convVars == <<conv_in, conv_out, conv_pc>>

----------------------------------------------------------------------------
(* Program constants *)

MAX_HISTORY == 20

SPIKE_THRESHOLD == 2

(* Bounds of the model *)

MaxRuns == 3

MaxLines == 2

----------------------------------------------------------------------------
(* str *)

DigitChars == {"0", "1", "2", "3", "4", "5", "6", "7", "8", "9"}

NumChars == DigitChars \cup {"."}

SpaceChars == {" ", "\t"}

DigitVal(c) ==
    CASE c = "0" -> 0 [] c = "1" -> 1 [] c = "2" -> 2 [] c = "3" -> 3
      [] c = "4" -> 4 [] c = "5" -> 5 [] c = "6" -> 6 [] c = "7" -> 7
      [] c = "8" -> 8 [] c = "9" -> 9

\* str.lower() on one character (the upper-case letters the inputs use)
LowerChar(c) ==
    CASE c = "B" -> "b" [] c = "K" -> "k" [] c = "M" -> "m" [] c = "G" -> "g"
      [] c = "T" -> "t" [] c = "I" -> "i" [] c = "P" -> "p" [] c = "S" -> "s"
      [] OTHER -> c

lower(s) == [i \in 1..Len(s) |-> LowerChar(s[i])]

RECURSIVE lstrip(_)
lstrip(s) == IF Len(s) > 0 /\ Head(s) \in SpaceChars THEN lstrip(Tail(s)) ELSE s

RECURSIVE rstrip(_)
rstrip(s) ==
    IF Len(s) > 0 /\ s[Len(s)] \in SpaceChars
    THEN rstrip(SubSeq(s, 1, Len(s) - 1))
    ELSE s

strip(s) == rstrip(lstrip(s))

\* first position at or after i whose character is not in C (Len(s)+1 if none):
\* where a greedy [C]* starting at i stops
RunEnd(s, i, C) ==
    CHOOSE j \in i..(Len(s) + 1) :
        /\ \A k \in i..(j - 1) : s[k] \in C
        /\ j = Len(s) + 1 \/ s[j] \notin C

CharAt(s, i) == IF i >= 1 /\ i <= Len(s) THEN s[i] ELSE ""

\* s[i:] starts with the literal t
StartsAt(s, i, t) ==
    /\ i >= 1
    /\ i + Len(t) - 1 <= Len(s)
    /\ \A k \in 1..Len(t) : s[i + k - 1] = t[k]

\* the `in` operator on strings
Contains(s, t) == \E i \in 1..(Len(s) + 1) : StartsAt(s, i, t)

----------------------------------------------------------------------------
(* float: tenths, little-endian base 1024 *)

Zero == <<>>

RECURSIVE FromInt(_)
FromInt(n) == IF n = 0 THEN <<>> ELSE <<n % 1024>> \o FromInt(n \div 1024)

RECURSIVE ToInt(_)
ToInt(x) == IF x = <<>> THEN 0 ELSE Head(x) + 1024 * ToInt(Tail(x))

RECURSIVE MulCarry(_, _, _)
MulCarry(x, m, c) ==
    IF x = <<>> THEN FromInt(c)
    ELSE LET t == Head(x) * m + c
         IN  <<t % 1024>> \o MulCarry(Tail(x), m, t \div 1024)

RECURSIVE Norm(_)
Norm(x) == IF Len(x) > 0 /\ x[Len(x)] = 0 THEN Norm(SubSeq(x, 1, Len(x) - 1)) ELSE x

\* x * m for a float x and a small integer m
MulSmall(x, m) == Norm(MulCarry(x, m, 0))

\* x * base**k
RECURSIVE MulPow(_, _, _)
MulPow(x, base, k) == IF k = 0 THEN x ELSE MulPow(MulSmall(x, base), base, k - 1)

\* float(text) accepts text over [0-9.] iff it has a digit and at most one "."
IsFloat(g) ==
    /\ \E i \in 1..Len(g) : g[i] \in DigitChars
    /\ Cardinality({i \in 1..Len(g) : g[i] = "."}) <= 1

RECURSIVE DigitsVal(_)
DigitsVal(d) ==
    IF d = <<>> THEN 0 ELSE 10 * DigitsVal(SubSeq(d, 1, Len(d) - 1)) + DigitVal(d[Len(d)])

\* float(g) in tenths
ParseFloat(g) ==
    LET dot  == RunEnd(g, 1, DigitChars)
        int  == SubSeq(g, 1, dot - 1)
        frac == IF dot + 1 <= Len(g) THEN DigitVal(g[dot + 1]) ELSE 0
    IN  FromInt(10 * DigitsVal(int) + frac)

----------------------------------------------------------------------------
(* convert_to_bytes, convert_rate_to_bps *)

\* group(2) of ([kmgt]?i?b) matched at position i, <<>> when it does not match
MatchByteUnit(s, i) ==
    LET p == IF CharAt(s, i) \in {"k", "m", "g", "t"} THEN 1 ELSE 0
        q == IF CharAt(s, i + p) = "i" THEN 1 ELSE 0
    IN  IF CharAt(s, i + p + q) = "b" THEN SubSeq(s, i, i + p + q) ELSE <<>>

\* the multipliers dict of convert_to_bytes, as the exponent of 1024;
\* -1 for a key the dict does not hold
ByteMultipliers(unit) ==
    CASE unit = <<"b">> -> 0
      [] unit = <<"k", "i", "b">> -> 1
      [] unit = <<"m", "i", "b">> -> 2
      [] unit = <<"g", "i", "b">> -> 3
      [] unit = <<"t", "i", "b">> -> 4
      [] OTHER -> -1

\* multipliers.get(unit, 1): the default 1 is 1024**0
ByteMultiplierGet(unit) ==
    IF ByteMultipliers(unit) = -1 THEN 0 ELSE ByteMultipliers(unit)

ConvertToBytes(value_str) ==
    LET s    == lower(strip(value_str))
        e1   == RunEnd(s, 1, NumChars)
        e2   == RunEnd(s, e1, SpaceChars)
        g1   == SubSeq(s, 1, e1 - 1)
        unit == MatchByteUnit(s, e2)
    IN  IF e1 = 1 \/ unit = <<>>
        THEN [exc |-> "none", value |-> Zero]
        ELSE IF ~IsFloat(g1)
        THEN [exc |-> "ValueError", value |-> Zero]
        ELSE [exc |-> "none",
              value |-> MulPow(ParseFloat(g1), 1024, ByteMultiplierGet(unit))]

\* the multipliers dict of convert_rate_to_bps, as the exponent of 1000
RateMultipliers(unit) ==
    CASE unit = "" -> 0 [] unit = "k" -> 1 [] unit = "m" -> 2
      [] unit = "g" -> 3 [] unit = "t" -> 4

ConvertRateToBps(rate_str) ==
    LET s  == lower(strip(rate_str))
        e1 == RunEnd(s, 1, NumChars)
        e2 == RunEnd(s, e1, SpaceChars)
        g1 == SubSeq(s, 1, e1 - 1)
        \* (k|m|g|t)?\s*bit/s : with the prefix letter, else without it
        withUnit == /\ CharAt(s, e2) \in {"k", "m", "g", "t"}
                    /\ StartsAt(s, RunEnd(s, e2 + 1, SpaceChars), <<"b", "i", "t", "/", "s">>)
        bare     == StartsAt(s, e2, <<"b", "i", "t", "/", "s">>)
        unit     == IF withUnit THEN CharAt(s, e2) ELSE ""
    IN  IF ~Contains(s, <<"b", "i", "t", "/", "s">>) \/ e1 = 1 \/ ~(withUnit \/ bare)
        THEN [exc |-> "none", value |-> Zero]
        ELSE IF ~IsFloat(g1)
        THEN [exc |-> "ValueError", value |-> Zero]
        ELSE [exc |-> "none",
              value |-> MulPow(ParseFloat(g1), 1000, RateMultipliers(unit))]

----------------------------------------------------------------------------
(* get_current_traffic_data *)

\* Optional[TrafficData]: <<>> is None, <<d>> is the TrafficData d
None == <<>>

Some(d) == <<d>>

TrafficData(timestamp, time, rx_bytes, tx_bytes, total_bytes, avg_rate_bps) ==
    [timestamp |-> timestamp, time |-> time, rx_bytes |-> rx_bytes,
     tx_bytes |-> tx_bytes, total_bytes |-> total_bytes,
     avg_rate_bps |-> avg_rate_bps]

\* str.split(sep)
RECURSIVE Split(_, _)
Split(s, sep) ==
    LET at == {i \in 1..Len(s) : s[i] = sep}
    IN  IF at = {} THEN <<s>>
        ELSE LET i == CHOOSE j \in at : \A k \in at : j <= k
             IN  <<SubSeq(s, 1, i - 1)>> \o Split(SubSeq(s, i + 1, Len(s)), sep)

\* \d{2}:\d{2} matches at position i
TimeAt(s, i) ==
    /\ i >= 1
    /\ i + 4 <= Len(s)
    /\ s[i] \in DigitChars /\ s[i + 1] \in DigitChars
    /\ s[i + 2] = ":"
    /\ s[i + 3] \in DigitChars /\ s[i + 4] \in DigitChars

TimePositions(s) == {i \in 1..Len(s) : TimeAt(s, i)}

MinOf(S) == CHOOSE j \in S : \A k \in S : j <= k

\* run_vnstat: the subprocess either runs (its stdout, as lines) or fails
RunVnstat(proc) ==
    IF proc.exc \in {"CalledProcessError", "FileNotFoundError"}
    THEN [exc |-> "RuntimeError", value |-> <<>>]
    ELSE [exc |-> "none", value |-> proc.stdout]

\* one iteration of the loop over lines: the new value of latest_data
ParseLine(line, latest_data, clock) ==
    IF TimePositions(line) = {} THEN latest_data
    ELSE
    LET split == Split(line, "|")
        parts == [i \in 1..Len(split) |-> strip(split[i])]
    IN  IF Len(parts) < 4 THEN latest_data
        ELSE
        LET time_rx_part == strip(parts[1])
            tp     == TimePositions(time_rx_part)
            \* \d{2}:\d{2}\s+(.+): leftmost label followed by white space
            rxp    == {i \in tp : CharAt(time_rx_part, i + 5) \in SpaceChars}
            time   == SubSeq(time_rx_part, MinOf(tp), MinOf(tp) + 4)
            rx_str == IF rxp # {}
                      THEN strip(SubSeq(time_rx_part,
                                        RunEnd(time_rx_part, MinOf(rxp) + 5, SpaceChars),
                                        Len(time_rx_part)))
                      ELSE <<"0", " ", "B">>
            rx     == ConvertToBytes(rx_str)
            tx     == ConvertToBytes(strip(parts[2]))
            total  == ConvertToBytes(strip(parts[3]))
            rate   == ConvertRateToBps(strip(parts[4]))
        IN  IF tp = {} THEN latest_data
            ELSE IF \E r \in {rx, tx, total, rate} : r.exc # "none"
            THEN latest_data        \* except (ValueError, IndexError): continue
            ELSE Some(TrafficData(clock, time, rx.value, tx.value,
                                  total.value, rate.value))

RECURSIVE ParseLines(_, _, _)
ParseLines(lines, latest_data, clock) ==
    IF lines = <<>> THEN latest_data
    ELSE ParseLines(Tail(lines), ParseLine(Head(lines), latest_data, clock), clock)

\* every exception inside is caught and turned into None
GetCurrentTrafficData_Propagates(proc, clock) ==
    LET out == RunVnstat(proc)
    IN  IF out.exc # "none"
        THEN [exc |-> out.exc, value |-> None]
        ELSE [exc |-> "none", value |-> ParseLines(out.value, None, clock)]

GetCurrentTrafficData(proc, clock) ==
    LET out == RunVnstat(proc)
    IN  IF out.exc # "none"
        THEN [exc |-> "none", value |-> None]
        ELSE [exc |-> "none", value |-> ParseLines(out.value, None, clock)]

----------------------------------------------------------------------------
(* The history file and the history store *)

\* A Python list or dict read from JSON: type "list" with its items, or type
\* "dict" (the empty object {}).  A record of the history is a TLA+ record
\* holding the keys it has.
PyList(items) == [type |-> "list", items |-> items]

PyDict == [type |-> "dict", items |-> <<>>]

\* The file: kind "absent"; "unreadable" (open raises IOError); "badjson" (not
\* JSON); "undecodable" (not text in the locale's encoding); "scalar" (JSON
\* null or a number); "object" (JSON {}); "list" (a JSON array, its items in
\* data).
File(kind, data) == [kind |-> kind, data |-> data]

LoadHistory(f) ==
    CASE f.kind = "absent"      -> [exc |-> "none", value |-> PyList(<<>>)]
      [] f.kind = "unreadable"  -> [exc |-> "none", value |-> PyList(<<>>)]
      [] f.kind = "badjson"     -> [exc |-> "none", value |-> PyList(<<>>)]
      [] f.kind = "undecodable" -> [exc |-> "UnicodeDecodeError", value |-> PyList(<<>>)]
      [] f.kind = "scalar"      -> [exc |-> "TypeError", value |-> PyList(<<>>)]
      [] f.kind = "object"      -> [exc |-> "none", value |-> PyDict]
      [] f.kind = "list"        -> [exc |-> "none", value |-> PyList(f.data)]

LastRecords_KeepsOldest(items) ==
    IF Len(items) > MAX_HISTORY THEN SubSeq(items, 1, MAX_HISTORY) ELSE items

\* history[-MAX_HISTORY:] when len(history) > MAX_HISTORY
LastRecords(items) ==
    IF Len(items) > MAX_HISTORY
    THEN SubSeq(items, Len(items) - MAX_HISTORY + 1, Len(items))
    ELSE items

\* save_history: io is what the file system does with open(..., 'w') and
\* json.dump: "ok", "open_fails" (the file is left as it was) or "dump_fails"
\* (the file was truncated by open and is left incomplete)
SaveHistory(f, history, io) ==
    CASE io = "ok"         -> File("list", LastRecords(history.items))
      [] io = "open_fails" -> f
      [] io = "dump_fails" -> File("badjson", <<>>)

CurrentRecord(current_data) ==
    [timestamp |-> current_data.timestamp, time |-> current_data.time,
     rx_bytes |-> current_data.rx_bytes, tx_bytes |-> current_data.tx_bytes,
     total_bytes |-> current_data.total_bytes,
     avg_rate_bps |-> current_data.avg_rate_bps]

AddToHistory_Prepends(f, current_data) ==
    LET loaded == LoadHistory(f)
    IN  IF loaded.exc # "none" THEN loaded
        ELSE IF loaded.value.type # "list"
        THEN [exc |-> "AttributeError", value |-> loaded.value]
        ELSE [exc |-> "none",
              value |-> PyList(LastRecords(<<CurrentRecord(current_data)>>
                                           \o loaded.value.items))]

\* add_to_history up to the call of save_history: the list handed to it
AddToHistory(f, current_data) ==
    LET loaded == LoadHistory(f)
    IN  IF loaded.exc # "none" THEN loaded
        ELSE IF loaded.value.type # "list"
        THEN [exc |-> "AttributeError", value |-> loaded.value]
        ELSE [exc |-> "none",
              value |-> PyList(LastRecords(Append(loaded.value.items,
                                                  CurrentRecord(current_data))))]

----------------------------------------------------------------------------
(* calculate_historical_stats, detect_spike *)

RECURSIVE SumSeq(_)
SumSeq(s) == IF s = <<>> THEN 0 ELSE Head(s) + SumSeq(Tail(s))

\* the dict {}
EmptyDict == <<>>

\* mean is the fraction <<numerator, denominator>>; stdev is held by its square,
\* the fraction <<numerator, denominator>> of the sample variance
CalculateHistoricalStats(history) ==
    IF Len(history.items) = 0 THEN [exc |-> "none", value |-> EmptyDict]
    ELSE IF \E i \in 1..Len(history.items) : "total_bytes" \notin DOMAIN history.items[i]
    THEN [exc |-> "KeyError", value |-> EmptyDict]
    ELSE
    LET total_bytes == [i \in 1..Len(history.items) |-> ToInt(history.items[i].total_bytes)]
        n == Len(total_bytes)
        S == SumSeq(total_bytes)
        Q == SumSeq([i \in 1..n |-> total_bytes[i] * total_bytes[i]])
    IN  [exc |-> "none",
         value |-> [total_traffic |->
                      [mean  |-> <<S, n>>,
                       stdev |-> IF n > 1 THEN <<n * Q - S * S, n * (n - 1)>> ELSE <<0, 1>>,
                       count |-> n]]]

\* z_score: its sign and its square as a fraction; 0.0 is ZeroScore
ZeroScore == [sign |-> 0, square |-> <<0, 1>>]

Sign(a) == IF a > 0 THEN 1 ELSE IF a < 0 THEN -1 ELSE 0

\* x > mean + SPIKE_THRESHOLD * stdev, for x - mean = a/n and stdev^2 = v[1]/v[2]
AboveThreshold(a, n, v) ==
    a > 0 /\ a * a * v[2] > SPIKE_THRESHOLD * SPIKE_THRESHOLD * n * n * v[1]

DetectSpike_TwoSided(current_data, historical_stats) ==
    IF "total_traffic" \notin DOMAIN historical_stats
    THEN [is_spike |-> FALSE, z_score |-> ZeroScore]
    ELSE
    LET mean  == historical_stats.total_traffic.mean
        stdev == historical_stats.total_traffic.stdev
        a     == ToInt(current_data.total_bytes) * mean[2] - mean[1]
        b     == IF a < 0 THEN -a ELSE a
    IN  IF stdev[1] = 0
        THEN [is_spike |-> FALSE, z_score |-> ZeroScore]
        ELSE [is_spike |-> AboveThreshold(b, mean[2], stdev),
              z_score  |-> [sign |-> Sign(a),
                            square |-> <<a * a * stdev[2], mean[2] * mean[2] * stdev[1]>>]]

DetectSpike(current_data, historical_stats) ==
    IF "total_traffic" \notin DOMAIN historical_stats
    THEN [is_spike |-> FALSE, z_score |-> ZeroScore]
    ELSE
    LET mean  == historical_stats.total_traffic.mean
        stdev == historical_stats.total_traffic.stdev
        a     == ToInt(current_data.total_bytes) * mean[2] - mean[1]
    IN  IF stdev[1] = 0
        THEN [is_spike |-> FALSE, z_score |-> ZeroScore]
        ELSE [is_spike |-> AboveThreshold(a, mean[2], stdev),
              z_score  |-> [sign |-> Sign(a),
                            square |-> <<a * a * stdev[2], mean[2] * mean[2] * stdev[1]>>]]

----------------------------------------------------------------------------
(* send_to_apps_script *)

\* net is what the network does with the POST: "ok", or a
\* requests.exceptions.RequestException ("ConnectionError", "Timeout",
\* "HTTPError" from raise_for_status); each is caught and gives False
SendToAppsScript_Raises(data, net) ==
    IF net = "ok" THEN [exc |-> "none", value |-> TRUE]
    ELSE [exc |-> net, value |-> FALSE]

SendToAppsScript(data, net) == [exc |-> "none", value |-> (net = "ok")]

HealthData(current_data) ==
    [type |-> "health_check", timestamp |-> current_data.timestamp,
     status |-> "healthy"]

AlertData(current_data, z_score, historical_stats) ==
    [type |-> "spike_alert", timestamp |-> current_data.timestamp,
     status |-> "spike"]

ErrorData(clock, e) ==
    [type |-> "health_check", timestamp |-> clock, status |-> "error"]

----------------------------------------------------------------------------
(* The inputs of the model *)

Procs == {1, 2}

NetOutcomes == {"ok", "ConnectionError", "Timeout", "HTTPError"}

IoOutcomes == {"ok", "open_fails", "dump_fails"}

B1 == <<"1", " ", "B">>

B3 == <<"3", " ", "B">>

TimeRx == <<"1", "4", ":", "3", "0", " ", " ">> \o B1

Bar == <<" ", "|", " ">>

Rate8 == <<"8", " ", "b", "i", "t", "/", "s">>

\* "14:30  1 B | 1 B | <total> | 8 bit/s"
DataLine(total) == TimeRx \o Bar \o B1 \o Bar \o total \o Bar \o Rate8

\* The lines vnstat prints: data lines whose total is 1 B, 3 B, not a quantity
\* ("n/a") or not a number ("1.2.3 B"); a heading; a line cut after two
\* columns; a line whose time label is not in its first column
VnstatLines ==
    { DataLine(B1), DataLine(B3),
      DataLine(<<"n", "/", "a">>),
      DataLine(<<"1", ".", "2", ".", "3", " ", "B">>),
      <<"e", "t", "h", "0">>,
      TimeRx \o Bar \o B1,
      <<"x">> \o Bar \o TimeRx \o Bar \o B1 \o Bar \o B1 }

RECURSIVE SeqsUpTo(_, _)
SeqsUpTo(S, n) ==
    IF n = 0 THEN {<<>>}
    ELSE LET shorter == SeqsUpTo(S, n - 1)
         IN  shorter \cup {Append(q, x) : q \in shorter, x \in S}

VnstatResults ==
    { [exc |-> e, stdout |-> <<>>] : e \in {"CalledProcessError", "FileNotFoundError"} }
    \cup { [exc |-> "none", stdout |-> out] : out \in SeqsUpTo(VnstatLines, MaxLines) }

\* a well-formed record of an earlier run, total_bytes = b bytes
OldRecord(t, b) ==
    [timestamp |-> t, time |-> <<"1", "4", ":", "3", "0">>, rx_bytes |-> FromInt(10),
     tx_bytes |-> FromInt(10), total_bytes |-> FromInt(10 * b),
     avg_rate_bps |-> FromInt(80)]

\* records stamped before the model's first run (timestamps <= 0)
OldRecords(bs) == [i \in 1..Len(bs) |-> OldRecord(i - Len(bs), bs[i])]

\* for every reading of the clock, what step 1 of run_check can yield: how the
\* subprocess ended and what get_current_traffic_data made of it
Fetched ==
    [clock \in 1..(MaxRuns + 1) |->
        { [vnstat |-> proc.exc, got |-> GetCurrentTrafficData(proc, clock)] :
            proc \in VnstatResults }]

Alternating(n) == [i \in 1..n |-> 1 + (i % 2)]

InitialFiles ==
    { File(k, <<>>) : k \in {"absent", "unreadable", "badjson", "undecodable",
                             "scalar", "object"} }
    \cup { File("list", OldRecords(bs)) :
             bs \in { <<>>, <<1>>, <<1, 2>>, <<0, 0, 1, 2, 2>>,
                      Alternating(MAX_HISTORY - 1), Alternating(MAX_HISTORY) } }
    \cup { File("list", <<[timestamp |-> 0]>>) }

\* every item carries the keys of a record written by add_to_history
WellFormed(items) ==
    \A i \in 1..Len(items) :
        DOMAIN items[i] = {"timestamp", "time", "rx_bytes", "tx_bytes",
                           "total_bytes", "avg_rate_bps"}

----------------------------------------------------------------------------
(* run_check *)

NoSpike == [is_spike |-> FALSE, z_score |-> ZeroScore]

\* steps 2 of run_check: load the history and compute the baseline from it
RunCheckBaseline_IncludesCurrent(f, current_data) ==
    LET loaded == AddToHistory(f, current_data)
        st     == CalculateHistoricalStats(loaded.value)
    IN  IF loaded.exc # "none"
        THEN [exc |-> loaded.exc, history |-> loaded.value, stats |-> EmptyDict]
        ELSE [exc |-> st.exc, history |-> loaded.value, stats |-> st.value]

RunCheckBaseline(f, current_data) ==
    LET loaded == LoadHistory(f)
        st     == CalculateHistoricalStats(loaded.value)
    IN  IF loaded.exc # "none"
        THEN [exc |-> loaded.exc, history |-> loaded.value, stats |-> EmptyDict]
        ELSE [exc |-> st.exc, history |-> loaded.value, stats |-> st.value]

\* run_check returns: record what the file held at that moment
Return(p, value, f) ==
    /\ result' = [result EXCEPT ![p] = value]
    /\ pc' = [pc EXCEPT ![p] = "done"]
    /\ fileAtEnd' = [fileAtEnd EXCEPT ![p] = f]

\* an exception reaches the except clause of run_check
Raise(p, e) ==
    /\ raised' = [raised EXCEPT ![p] = e]
    /\ pc' = [pc EXCEPT ![p] = "except"]
    /\ UNCHANGED <<result, fileAtEnd>>

Goto(p, label) ==
    /\ pc' = [pc EXCEPT ![p] = label]
    /\ UNCHANGED <<result, fileAtEnd, raised>>

\* run_check is entered and step 1 (get_current_traffic_data) is done
StartRun(p) ==
    /\ pc[p] \in {"idle", "done"}
    /\ runs < MaxRuns
    /\ runs' = runs + 1
    /\ now' = now + 1
    /\ \E fetch \in Fetched[now] :
         LET got == fetch.got
         IN  /\ vnstat' = [vnstat EXCEPT ![p] = fetch.vnstat]
             /\ cur' = [cur EXCEPT ![p] = got.value]
             /\ IF got.exc # "none"
                THEN /\ raised' = [raised EXCEPT ![p] = got.exc]
                     /\ pc' = [pc EXCEPT ![p] = "except"]
                     /\ result' = [result EXCEPT ![p] = "running"]
                     /\ UNCHANGED fileAtEnd
                ELSE IF got.value = None
                THEN /\ raised' = [raised EXCEPT ![p] = "none"]
                     /\ Return(p, "False", file)
                ELSE /\ raised' = [raised EXCEPT ![p] = "none"]
                     /\ pc' = [pc EXCEPT ![p] = "load"]
                     /\ result' = [result EXCEPT ![p] = "running"]
                     /\ UNCHANGED fileAtEnd
    /\ hist' = [hist EXCEPT ![p] = PyList(<<>>)]
    /\ stats' = [stats EXCEPT ![p] = EmptyDict]
    /\ spike' = [spike EXCEPT ![p] = NoSpike]
    /\ sent' = [sent EXCEPT ![p] = <<>>]
    /\ wrote' = [wrote EXCEPT ![p] = "none"]
    /\ fileAtStart' = [fileAtStart EXCEPT ![p] = file]
    /\ fileAtSave' = [fileAtSave EXCEPT ![p] = file]
    /\ overlapped' = [overlapped EXCEPT ![p] = FALSE]
    /\ UNCHANGED <<file, calls, intact, convVars>>

\* steps 2 and 3 up to the decision: load_history, calculate_historical_stats,
\* detect_spike
LoadAndDetect(p) ==
    /\ pc[p] = "load"
    /\ LET b == RunCheckBaseline(file, cur[p][1])
           d == DetectSpike(cur[p][1], b.stats)
       IN  IF b.exc # "none"
           THEN /\ Raise(p, b.exc)
                /\ UNCHANGED <<hist, stats, spike>>
           ELSE /\ hist' = [hist EXCEPT ![p] = b.history]
                /\ stats' = [stats EXCEPT ![p] = b.stats]
                /\ spike' = [spike EXCEPT ![p] = d]
                /\ Goto(p, IF d.is_spike THEN "alert" ELSE "health")
    /\ UNCHANGED <<file, now, runs, vnstat, cur, sent, wrote, fileAtStart, fileAtSave,
                   overlapped, calls, intact, convVars>>

\* a payload is handed to send_to_apps_script; next is where run_check goes on
Send(p, data, net, next) ==
    LET r == SendToAppsScript(data, net)
    IN  /\ sent' = [sent EXCEPT ![p] = Append(@, [data |-> data, delivered |-> r.value])]
        /\ IF r.exc # "none" THEN Raise(p, r.exc) ELSE Goto(p, next)

\* send_spike_alert
SendSpikeAlert(p) ==
    /\ pc[p] = "alert"
    /\ \E net \in NetOutcomes :
         Send(p, AlertData(cur[p][1], spike[p].z_score, stats[p]), net, "health")
    /\ UNCHANGED <<file, now, runs, vnstat, cur, hist, stats, spike, wrote, fileAtStart,
                   fileAtSave, overlapped, calls, intact, convVars>>

\* step 4: send_health_check
SendHealthCheck(p) ==
    /\ pc[p] = "health"
    /\ \E net \in NetOutcomes : Send(p, HealthData(cur[p][1]), net, "append")
    /\ UNCHANGED <<file, now, runs, vnstat, cur, hist, stats, spike, wrote, fileAtStart,
                   fileAtSave, overlapped, calls, intact, convVars>>

\* step 5, first half: add_to_history loads, appends and trims
AddToHistoryLoad(p) ==
    /\ pc[p] = "append"
    /\ LET r == AddToHistory(file, cur[p][1])
       IN  IF r.exc # "none"
           THEN /\ Raise(p, r.exc)
                /\ UNCHANGED <<hist, overlapped>>
           ELSE /\ hist' = [hist EXCEPT ![p] = r.value]
                /\ Goto(p, "save")
                /\ overlapped' =
                     [q \in Procs |->
                        IF q = p THEN \E o \in Procs \ {p} : pc[o] = "save"
                        ELSE overlapped[q] \/ pc[q] = "save"]
    /\ UNCHANGED <<file, now, runs, vnstat, cur, stats, spike, sent, wrote, fileAtStart,
                   fileAtSave, calls, intact, convVars>>

\* step 5, second half: save_history writes the file; run_check returns True
AddToHistorySave(p) ==
    /\ pc[p] = "save"
    /\ \E io \in IoOutcomes :
         /\ file' = SaveHistory(file, hist[p], io)
         /\ wrote' = [wrote EXCEPT ![p] = io]
         /\ intact' = (intact /\ io = "ok")
         /\ fileAtSave' = [fileAtSave EXCEPT ![p] = SaveHistory(file, hist[p], io)]
         /\ Return(p, "True", SaveHistory(file, hist[p], io))
    /\ calls' = Append(calls, CurrentRecord(cur[p][1]))
    /\ UNCHANGED <<now, runs, vnstat, cur, hist, stats, spike, sent, raised, fileAtStart,
                   overlapped, convVars>>

\* the except clause: the error health check, whose own failure is ignored
HandleException(p) ==
    /\ pc[p] = "except"
    /\ \E net \in NetOutcomes :
         LET data == ErrorData(now, raised[p])
             r    == SendToAppsScript(data, net)
         IN  sent' = [sent EXCEPT ![p] = Append(@, [data |-> data, delivered |-> r.value])]
    /\ Return(p, "False", file)
    /\ UNCHANGED <<file, now, runs, vnstat, cur, hist, stats, spike, raised, wrote,
                   fileAtStart, fileAtSave, overlapped, calls, intact, convVars>>

----------------------------------------------------------------------------
(* Specifications *)

InitMain(files) ==
    /\ file \in files
    /\ now = 1
    /\ runs = 0
    /\ pc = [p \in Procs |-> "idle"]
    /\ vnstat = [p \in Procs |-> "none"]
    /\ cur = [p \in Procs |-> None]
    /\ hist = [p \in Procs |-> PyList(<<>>)]
    /\ stats = [p \in Procs |-> EmptyDict]
    /\ spike = [p \in Procs |-> NoSpike]
    /\ sent = [p \in Procs |-> <<>>]
    /\ result = [p \in Procs |-> "running"]
    /\ raised = [p \in Procs |-> "none"]
    /\ wrote = [p \in Procs |-> "none"]
    /\ fileAtStart = [p \in Procs |-> file]
    /\ fileAtSave = [p \in Procs |-> file]
    /\ fileAtEnd = [p \in Procs |-> file]
    /\ overlapped = [p \in Procs |-> FALSE]
    /\ calls = (IF file.kind = "list" THEN file.data ELSE <<>>)
    /\ intact = (file.kind = "list" /\ WellFormed(file.data))

ConvIdle ==
    /\ conv_in = [text |-> <<>>, magnitude |-> <<>>, unit |-> <<>>, tail |-> <<>>]
    /\ conv_out = [exc |-> "none", value |-> Zero]
    /\ conv_pc = "off"

Init == InitMain(InitialFiles) /\ ConvIdle

RunCheck(p) ==
    \/ StartRun(p)
    \/ LoadAndDetect(p)
    \/ SendSpikeAlert(p)
    \/ SendHealthCheck(p)
    \/ AddToHistoryLoad(p)
    \/ AddToHistorySave(p)
    \/ HandleException(p)

\* the scheduler starts an invocation after the previous one has returned
Next == RunCheck(1)

Spec == Init /\ [][Next]_vars

\* two invocations, each run once, against the same history file: nothing
\* keeps the second from starting before the first has returned
NextOverlap == \E p \in Procs : pc[p] # "done" /\ RunCheck(p)

SpecOverlap == Init /\ [][NextOverlap]_vars

----------------------------------------------------------------------------
(* The unit converters on their own *)

Magnitudes ==
    { <<"1">>, <<"1", "2">>, <<"1", ".", "5">>, <<".", "5">>, <<"2", ".">>,
      <<"0">>, <<".">>, <<"1", ".", "2", ".", "3">>, <<>>, <<"x">> }

ByteUnits ==
    { <<"B">>, <<"b">>,
      <<"K", "i", "B">>, <<"k", "i", "b">>, <<"K", "B">>, <<"k", "b">>,
      <<"M", "i", "B">>, <<"M", "B">>, <<"G", "i", "B">>, <<"G", "B">>,
      <<"T", "i", "B">>, <<"t", "b">> }

OtherUnits ==
    { <<>>, <<"i", "B">>, <<"P", "i", "B">>, <<"x">>,
      <<"b", "i", "t", "/", "s">>, <<"k", "b", "i", "t", "/", "s">>,
      <<"M", "b", "i", "t", "/", "s">> }

ConvInputs ==
    { [text |-> lead \o m \o sep \o u \o tail, magnitude |-> m, unit |-> u, tail |-> tail] :
        lead \in {<<>>, <<" ">>}, m \in Magnitudes, sep \in {<<>>, <<" ">>},
        u \in ByteUnits \cup OtherUnits, tail \in {<<>>, <<"/", "s">>} }

InitConvert ==
    /\ InitMain({File("absent", <<>>)})
    /\ conv_in \in ConvInputs
    /\ conv_out = [exc |-> "none", value |-> Zero]
    /\ conv_pc = "in"

CallConvertToBytes ==
    /\ conv_pc = "in"
    /\ conv_out' = ConvertToBytes(conv_in.text)
    /\ conv_pc' = "bytes"
    /\ UNCHANGED <<conv_in, mainVars>>

CallConvertRateToBps ==
    /\ conv_pc = "in"
    /\ conv_out' = ConvertRateToBps(conv_in.text)
    /\ conv_pc' = "rate"
    /\ UNCHANGED <<conv_in, mainVars>>

NextConvert == CallConvertToBytes \/ CallConvertRateToBps

SpecConvert == InitConvert /\ [][NextConvert]_vars

----------------------------------------------------------------------------
(* Properties *)

Range(q) == {q[i] : i \in 1..Len(q)}

HasData(p) == cur[p] # None

Finished(p) == pc[p] = "done"

MyRecord(p) == CurrentRecord(cur[p][1])

\* positions in sent[p] of the payloads of a type and status
Payloads(p, type, status) ==
    {i \in 1..Len(sent[p]) : sent[p][i].data.type = type /\ sent[p][i].data.status = status}

Alerts(p) == Payloads(p, "spike_alert", "spike")

Healthy(p) == Payloads(p, "health_check", "healthy")

Errors(p) == Payloads(p, "health_check", "error")

RecordList(f) == f.kind = "list" /\ WellFormed(f.data)

NewestIs(f, rec) == f.kind = "list" /\ Len(f.data) > 0 /\ f.data[Len(f.data)] = rec

\* C1: starting from a persisted list of at most MAX_HISTORY records, as long
\* as every write succeeds, the file holds at most MAX_HISTORY records and they
\* are exactly the last min(MAX_HISTORY, n) of the n records (initial records,
\* then the appended ones) in append order.
C1_HistoryIsNewestWindow ==
    intact =>
        LET n == Len(calls)
            m == IF n < MAX_HISTORY THEN n ELSE MAX_HISTORY
        IN  /\ file.kind = "list"
            /\ Len(file.data) <= MAX_HISTORY
            /\ file.data = [i \in 1..m |-> calls[n - m + i]]

C1_Witness ==
    /\ intact
    /\ Len(calls) >= MAX_HISTORY + 2
    /\ Len(file.data) = MAX_HISTORY

\* C2: the baseline handed to detect_spike is computed from the history as
\* persisted before the run, which does not hold the current measurement, and
\* the measurement is in the file only after the decision and the
\* notifications were made.
C2_BaselineExcludesCurrent ==
    \A p \in Procs :
        HasData(p) =>
            /\ pc[p] \in {"alert", "health", "append", "save"} \/ result[p] = "True" =>
                 /\ fileAtStart[p].kind = "list" => MyRecord(p) \notin Range(fileAtStart[p].data)
                 /\ stats[p] = CalculateHistoricalStats(LoadHistory(fileAtStart[p]).value).value
            /\ file.kind = "list" /\ MyRecord(p) \in Range(file.data) =>
                 /\ Finished(p)
                 /\ Healthy(p) # {}
                 /\ spike[p].is_spike => Alerts(p) # {}

C2_Witness ==
    /\ Finished(1) /\ HasData(1) /\ result[1] = "True"
    /\ spike[1].is_spike
    /\ file.kind = "list" /\ MyRecord(1) \in Range(file.data)
    /\ Len(fileAtStart[1].data) >= 2

\* C3: when the vnstat invocation fails or no line yields a measurement,
\* run_check returns False, hands nothing to send_to_apps_script and leaves
\* the history file as it was.
C3_NoMeasurementNoEffect ==
    \A p \in Procs :
        /\ vnstat[p] # "none" /\ pc[p] # "idle" => cur[p] = None /\ Finished(p)
        /\ pc[p] # "idle" /\ cur[p] = None =>
             /\ Finished(p)
             /\ result[p] = "False"
             /\ sent[p] = <<>>
             /\ fileAtEnd[p] = fileAtStart[p]
             /\ wrote[p] = "none"

C3_Witness ==
    /\ Finished(1) /\ vnstat[1] = "CalledProcessError"
    /\ file.kind = "list" /\ Len(file.data) > 0

C5_PersistenceFaultNeverFails ==
    \A p \in Procs : Finished(p) /\ HasData(p) => result[p] = "True"

\* C6: in every run that obtained a measurement, a spike alert is sent iff
\* is_spike, a healthy health check is sent after it in every case, and both
\* precede the append.
C6_AlertIffSpikeThenHealthy ==
    \A p \in Procs :
        Finished(p) /\ HasData(p) =>
            /\ Alerts(p) # {} <=> spike[p].is_spike
            /\ Healthy(p) # {}
            /\ \A a \in Alerts(p), h \in Healthy(p) : a < h
            /\ wrote[p] # "none"

\* C7: detect_spike gives (False, 0.0) when the baseline is absent or its stdev
\* is 0; otherwise is_spike holds exactly when total_bytes > mean + 2 * stdev;
\* so a measurement at or below the mean is never a spike.
C7_SpikeIsUpperTail ==
    \A p \in Procs :
        HasData(p) =>
            IF "total_traffic" \notin DOMAIN stats[p]
            THEN spike[p] = [is_spike |-> FALSE, z_score |-> ZeroScore]
            ELSE LET t  == stats[p].total_traffic
                     x  == ToInt(cur[p][1].total_bytes)
                     \* x - mean, times the count
                     d  == x * t.mean[2] - t.mean[1]
                 IN  IF t.stdev[1] = 0
                     THEN spike[p] = [is_spike |-> FALSE, z_score |-> ZeroScore]
                     ELSE /\ spike[p].is_spike <=>
                               /\ d > 0
                               /\ d * d * t.stdev[2] > 4 * t.mean[2] * t.mean[2] * t.stdev[1]
                          /\ d <= 0 => ~spike[p].is_spike
                          /\ spike[p].z_score.sign = Sign(d)

\* total_bytes is exactly mean + 2 * stdev, stdev > 0, and it is no spike
C7_Witness ==
    /\ HasData(1) /\ "total_traffic" \in DOMAIN stats[1]
    /\ LET t == stats[1].total_traffic
           d == ToInt(cur[1][1].total_bytes) * t.mean[2] - t.mean[1]
       IN  /\ t.stdev[1] > 0
           /\ d > 0
           /\ d * d * t.stdev[2] = 4 * t.mean[2] * t.mean[2] * t.stdev[1]
    /\ ~spike[1].is_spike

\* what C8 expects of a magnitude: its value in tenths, -1 when it is no number
MagnitudeTenths(m) ==
    CASE m = <<"1">> -> 10 [] m = <<"1", "2">> -> 120 [] m = <<"1", ".", "5">> -> 15
      [] m = <<".", "5">> -> 5 [] m = <<"2", ".">> -> 20 [] m = <<"0">> -> 0
      [] OTHER -> -1

\* what C8 expects of a unit: the exponent k, -1 when it is no byte unit
UnitExponent(u) ==
    LET l == lower(u)
    IN  CASE l \in {<<"b">>} -> 0
          [] l \in {<<"k", "i", "b">>, <<"k", "b">>} -> 1
          [] l \in {<<"m", "i", "b">>, <<"m", "b">>} -> 2
          [] l \in {<<"g", "i", "b">>, <<"g", "b">>} -> 3
          [] l \in {<<"t", "i", "b">>, <<"t", "b">>} -> 4
          [] OTHER -> -1

\* C8: convert_to_bytes never raises; for a magnitude v followed by a byte unit
\* (the "i" optional, any case) it returns v * 1024^k, and 0.0 for anything
\* else.
C8_ConvertToBytesTotal ==
    conv_pc = "bytes" =>
        /\ conv_out.exc = "none"
        /\ conv_out.value =
             IF /\ MagnitudeTenths(conv_in.magnitude) >= 0
                /\ UnitExponent(conv_in.unit) >= 0
                /\ conv_in.tail = <<>>
             THEN MulPow(FromInt(MagnitudeTenths(conv_in.magnitude)), 1024,
                         UnitExponent(conv_in.unit))
             ELSE Zero

C10_HealthyExcludesError ==
    \A p \in Procs :
        /\ ~(Healthy(p) # {} /\ Errors(p) # {})
        /\ Finished(p) /\ Healthy(p) # {} => result[p] = "True"


=============================================================================
